---- MODULE Spec2Model ----
(***************************************************************************)
(* Model of dawn.commands.slash.command.SlashCommand: the descriptor built *)
(* by __init__, its read-only properties, the autocomplete registration    *)
(* and the structural comparator _compare_with.                            *)
(*                                                                         *)
(* Python values are represented as follows.                               *)
(*   str            a sequence of one-character strings (names), or an     *)
(*                  opaque TLA+ string (descriptions, compared only by ==) *)
(*   None / value   a tagged record, NoneVal or Some(v)                    *)
(*   an exception   the string naming it, "None" when nothing was raised   *)
(***************************************************************************)
EXTENDS Integers, Sequences, FiniteSets

VARIABLES
    _name,          \* self._name
    _description,   \* self._description
    _guild_ids,     \* self._guild_ids
    _options,       \* self._options
    _extension,     \* self._extension
    _autocompletes, \* option names with a registered autocomplete callback
    args,           \* the arguments __init__ was called with
    raised,         \* the exception __init__ ended with, "None" if it returned
    seen,           \* what the five property reads last returned
    remote,         \* the hikari.SlashCommand registered with Discord
    ret             \* how the last _compare_with(remote) call ended

vars == <<_name, _description, _guild_ids, _options, _extension,
          _autocompletes, args, raised, seen, remote, ret>>

----------------------------------------------------------------------------
(* Bounds and input sets *)

\* longest options tuple, local or remote
MaxOpts == 2

NoneVal == [tag |-> "None"]
Some(v) == [tag |-> "Some", val |-> v]

Null == "null"

\* dawn Option descriptors given to the constructor
LocalOptionValues ==
    { [name |-> "a", description |-> "x", type |-> 3],
      [name |-> "b", description |-> "x", type |-> 3] }

\* hikari.CommandOption values of a remote command: the local ones, one
\* differing from the first in type only and one in description only
RemoteOptionValues ==
    LocalOptionValues \cup
    { [name |-> "a", description |-> "x", type |-> 4],
      [name |-> "a", description |-> "y", type |-> 3] }

SeqsUpTo(S, n) == UNION { [1..k -> S] : k \in 0..n }

NameInputs ==
    { << >>,
      <<"P", "i", "n", "g">>,
      <<"p", "i", "n", "g">>,
      <<"P", "I", "N", "G">> }

DescriptionInputs == {"d", "e"}

\* guild_ids argument: omitted/None, empty, or a sequence of ids
GuildIdsInputs == {NoneVal, Some(<< >>), Some(<<2, 1>>)}

\* options argument: omitted (the default applies) or a tuple
OptionsInputs ==
    {NoneVal} \cup {Some(s) : s \in SeqsUpTo(LocalOptionValues, MaxOpts)}

RemoteNames == { <<"p", "i", "n", "g">>, <<"P", "i", "n", "g">> }

\* command.options of a hikari.SlashCommand is Optional[Sequence[CommandOption]]
RemoteCommands ==
    [name : RemoteNames,
     description : DescriptionInputs,
     options : {NoneVal} \cup
               {Some(s) : s \in SeqsUpTo(RemoteOptionValues, MaxOpts)}]

Extensions == {"ext"}

AutocompleteNames == {"a"}

----------------------------------------------------------------------------
(* Python helpers *)

UpperChars == {"P", "I", "N", "G"}

LowerChar(c) ==
    CASE c = "P" -> "p"
      [] c = "I" -> "i"
      [] c = "N" -> "n"
      [] c = "G" -> "g"
      [] OTHER -> c

\* str.lower() left out
lower_Identity(s) == s

\* str.lower()
lower(s) == [i \in 1..Len(s) |-> LowerChar(s[i])]

\* bool(x) of an Optional[Sequence]
Truthy(x) == x.tag = "Some" /\ Len(x.val) > 0

\* x or []
OrEmpty(x) == IF Truthy(x) THEN x.val ELSE << >>

\* len(x): a TypeError on None
len(x) == IF x.tag = "None" THEN [raised |-> "TypeError", value |-> 0]
          ELSE [raised |-> "None", value |-> Len(x.val)]

Min(a, b) == IF a < b THEN a ELSE b

\* zip(a, b): pairs up to the shorter of the two
zip(a, b) == [i \in 1..Min(Len(a), Len(b)) |-> <<a[i], b[i]>>]

----------------------------------------------------------------------------
(* SlashCommand *)

\* guild_ids or [], after a sort of the ids
InitGuildIds_Sorted(guild_ids_) ==
    LET g == OrEmpty(guild_ids_)
    IN  IF Len(g) = 2 /\ g[1] > g[2] THEN <<g[2], g[1]>> ELSE g

\* guild_ids or []
InitGuildIds(guild_ids_) == OrEmpty(guild_ids_)

\* the options argument dropped
OptionsArg_Dropped(options_) == << >>

\* the options parameter: its default is the empty tuple
OptionsArg(options_) ==
    IF options_.tag = "None" THEN << >> ELSE options_.val

\* SlashCommand.__init__
SlashCommand__init__(name_, description_, guild_ids_, options_) ==
    [_extension |-> Null,
     _name |-> lower(name_),
     _description |-> description_,
     _guild_ids |-> InitGuildIds(guild_ids_),
     _options |-> OptionsArg(options_),
     raised |-> "None"]

\* the properties
name == _name
description == _description
guild_ids == _guild_ids
options == _options
extension == _extension

\* the pair comparison with the remote option's type on the right
PairEqual_RemoteType(option, option_c) ==
    <<option.name, option.description, option.type>>
        = <<option_c.name, option_c.description, option_c.type>>

\* the tuple comparison of one (option, option_c) pair
PairEqual(option, option_c) ==
    <<option.name, option.description, option.type>>
        = <<option_c.name, option_c.description, option.type>>

\* the options compared by lookup instead of by position
AllPairsEqual_AnyOrder(self_options, command_options) ==
    \A i \in DOMAIN self_options :
        \E j \in DOMAIN command_options :
            PairEqual(self_options[i], command_options[j])

\* all(... for option, option_c in zip(self_options, command_options))
AllPairsEqual(self_options, command_options) ==
    LET z == zip(self_options, command_options)
    IN  \A i \in DOMAIN z : PairEqual(z[i][1], z[i][2])

\* command.options, without the `or []`
RemoteOptions_NoDefault(command) == command.options

\* command.options or []
RemoteOptions(command) == Some(OrEmpty(command.options))

\* the count comparison left out
SameLen_Dropped(self_len, command_len) == TRUE

\* len(self.options) == len(command.options or [])
SameLen(self_len, command_len) == self_len = command_len

Returns(b) == [raised |-> "None", value |-> b]
Raises(e) == [raised |-> e, value |-> FALSE]
NotCalled == [raised |-> "NotCalled", value |-> FALSE]

\* a comparator that requires the remote command to have options
_compare_with_RequireOptions(command) ==
    IF name # command.name THEN Returns(FALSE)
    ELSE IF description # command.description THEN Returns(FALSE)
    ELSE IF command.options.tag = "None" THEN Returns(FALSE)
    ELSE IF ~SameLen(Len(options), Len(command.options.val))
         THEN Returns(FALSE)
    ELSE Returns(AllPairsEqual(options, command.options.val))

\* SlashCommand._compare_with: the conjuncts of the `and` chain are evaluated
\* left to right and the first false one ends the evaluation
_compare_with(command) ==
    IF name # command.name THEN Returns(FALSE)
    ELSE IF description # command.description THEN Returns(FALSE)
    ELSE LET command_options == RemoteOptions(command)
             n == len(command_options)
         IN  IF n.raised # "None" THEN Raises(n.raised)
             ELSE IF ~SameLen(Len(options), n.value) THEN Returns(FALSE)
             ELSE Returns(AllPairsEqual(options, command_options.val))

----------------------------------------------------------------------------
(* State machine *)

Init ==
    \E n \in NameInputs, d \in DescriptionInputs,
       g \in GuildIdsInputs, o \in OptionsInputs, command \in RemoteCommands :
        LET self == SlashCommand__init__(n, d, g, o)
        IN  /\ _extension = self._extension
            /\ _name = self._name
            /\ _description = self._description
            /\ _guild_ids = self._guild_ids
            /\ _options = self._options
            /\ raised = self.raised
            /\ args = [name |-> n, description |-> d,
                       guild_ids |-> g, options |-> o]
            /\ _autocompletes = {}
            /\ seen = NoneVal
            /\ remote = command
            /\ ret = NotCalled

\* a caller reads the five properties
ReadProperties ==
    /\ seen' = Some([name |-> name, description |-> description,
                     guild_ids |-> guild_ids, options |-> options,
                     extension |-> extension])
    /\ UNCHANGED <<_name, _description, _guild_ids, _options, _extension,
                   _autocompletes, args, raised, remote, ret>>

\* cmd.autocomplete(option_name)(callback): the base class keeps the callback
\* under the option's name
Autocomplete ==
    \E option_name \in AutocompleteNames :
        /\ _autocompletes' = _autocompletes \cup {option_name}
        /\ UNCHANGED <<_name, _description, _guild_ids, _options, _extension,
                       args, raised, seen, remote, ret>>

\* the registration process binds the command to its extension
BindExtension ==
    \E e \in Extensions :
        /\ _extension' = e
        /\ UNCHANGED <<_name, _description, _guild_ids, _options,
                       _autocompletes, args, raised, seen, remote, ret>>

\* a comparison that consumes the options it walks over
CompareWith_Consuming ==
    /\ ret' = _compare_with(remote)
    /\ _options' = << >>
    /\ UNCHANGED <<_name, _description, _guild_ids, _extension,
                   _autocompletes, args, raised, seen, remote>>

\* the synchronisation process calls cmd._compare_with(remote)
CompareWith ==
    /\ ret' = _compare_with(remote)
    /\ UNCHANGED <<_name, _description, _guild_ids, _options, _extension,
                   _autocompletes, args, raised, seen, remote>>

Next ==
    \/ ReadProperties
    \/ Autocomplete
    \/ BindExtension
    \/ CompareWith

Spec == Init /\ [][Next]_vars

----------------------------------------------------------------------------
(* Properties *)

\* _compare_with(remote) has been called and has ended
Called == ret.raised # "NotCalled"

\* the remote command's options, an absent value read as no options
RemoteOpts == IF remote.options.tag = "None" THEN << >> ELSE remote.options.val

SameCount == Len(options) = Len(RemoteOpts)

NamesAndDescriptionsMatch ==
    /\ name = remote.name
    /\ description = remote.description
    /\ SameCount
    /\ \A i \in 1..Len(options) :
           /\ options[i].name = RemoteOpts[i].name
           /\ options[i].description = RemoteOpts[i].description

TypesMatch ==
    \A i \in 1..Min(Len(options), Len(RemoteOpts)) :
        options[i].type = RemoteOpts[i].type

\* C1: whenever names, descriptions, option counts and every positional
\* pair's name and description are equal, _compare_with returns true, also
\* when the type of a remote option differs from the local one's.
C1_TrueOnNameDescriptionMatch ==
    (Called /\ NamesAndDescriptionsMatch) => ret = Returns(TRUE)

C1_Witness ==
    /\ Called
    /\ NamesAndDescriptionsMatch
    /\ ~TypesMatch
    /\ ret = Returns(TRUE)

\* C2: _compare_with returns true if and only if names, descriptions and
\* option counts match and every positional pair of options has equal
\* (name, description, type).
C2_TrueIffTuplesMatch ==
    Called => (ret = Returns(TRUE) <=> (NamesAndDescriptionsMatch /\ TypesMatch))

\* C3: when the remote command's number of options differs from the local
\* number of options, _compare_with returns false.
C3_FalseOnCountMismatch ==
    (Called /\ ~SameCount) => ret = Returns(FALSE)

\* the local options are a proper, non-empty prefix of the remote ones and
\* everything else matches
C3_Witness ==
    /\ Called
    /\ name = remote.name
    /\ description = remote.description
    /\ Len(options) >= 1
    /\ Len(options) < Len(RemoteOpts)
    /\ \A i \in 1..Len(options) : options[i] = RemoteOpts[i]
    /\ ret = Returns(FALSE)

\* C4: with equal option counts, a position at which the local and the
\* remote option differ in name or in description makes _compare_with
\* return false; the comparison is positional.
C4_FalseOnPairMismatch ==
    (/\ Called
     /\ SameCount
     /\ \E i \in 1..Len(options) :
            \/ options[i].name # RemoteOpts[i].name
            \/ options[i].description # RemoteOpts[i].description)
    => ret = Returns(FALSE)

\* the remote command holds the same two options in the other order
C4_Witness ==
    /\ Called
    /\ name = remote.name
    /\ description = remote.description
    /\ Len(options) = 2
    /\ Len(RemoteOpts) = 2
    /\ options[1] = RemoteOpts[2]
    /\ options[2] = RemoteOpts[1]
    /\ options[1].name # options[2].name
    /\ ret = Returns(FALSE)

\* the lower-case form of each cased character of the names
LowerCaseOf == {<<"P", "p">>, <<"I", "i">>, <<"N", "n">>, <<"G", "g">>}

\* C5: the name property is the lower-cased name argument in every state
\* after construction, and holds no upper-case character.
C5_NameLowerCased ==
    /\ Len(name) = Len(args.name)
    /\ \A i \in 1..Len(name) :
           /\ name[i] \notin UpperChars
           /\ \/ name[i] = args.name[i]
              \/ <<args.name[i], name[i]>> \in LowerCaseOf

C5_Witness ==
    /\ args.name = <<"P", "i", "n", "g">>
    /\ name = <<"p", "i", "n", "g">>
    /\ Called

\* C6: without a guild_ids argument the guild_ids property is empty; a
\* non-empty guild_ids argument is returned element for element, in order.
C6_GuildIds ==
    /\ args.guild_ids.tag = "None" => guild_ids = << >>
    /\ (args.guild_ids.tag = "Some" /\ Len(args.guild_ids.val) > 0)
          => guild_ids = args.guild_ids.val

C6_Witness ==
    /\ args.guild_ids = Some(<<2, 1>>)
    /\ guild_ids = <<2, 1>>

\* C7: without an options argument the options property is empty; options
\* given at construction are returned element for element, in order.
C7_Options ==
    /\ args.options.tag = "None" => options = << >>
    /\ args.options.tag = "Some" => options = args.options.val

C7_Witness ==
    /\ args.options.tag = "Some"
    /\ Len(args.options.val) = 2
    /\ args.options.val[1] # args.options.val[2]
    /\ options = args.options.val

\* C8: extension is null right after construction; no property read,
\* autocomplete registration or _compare_with call changes name,
\* description, guild_ids or options, nor the remote command, and only the
\* registration process changes extension.
C8_Immutable ==
    /\ extension = Null
    /\ [][/\ name' = name
          /\ description' = description
          /\ guild_ids' = guild_ids
          /\ options' = options
          /\ remote' = remote
          /\ extension' # extension => BindExtension]_vars

\* read, registered and compared, not yet bound, the fields as constructed
C8_Witness ==
    /\ Called
    /\ seen.tag = "Some"
    /\ _autocompletes # {}
    /\ extension = Null
    /\ Len(options) = 2
    /\ options = args.options.val
    /\ Len(guild_ids) = 2

\* C9: construction ends without an exception for every name (the empty one
\* included), description, guild_ids and options (duplicate option names
\* included), and _compare_with ends with a boolean, never an exception.
C9_NoException ==
    /\ raised = "None"
    /\ Called => (ret.raised = "None" /\ ret.value \in BOOLEAN)

\* duplicate option names, a remote command without options, and the
\* comparison got as far as the options
C9_Witness ==
    /\ Called
    /\ Len(options) = 2
    /\ options[1].name = options[2].name
    /\ remote.options = NoneVal
    /\ name = remote.name
    /\ description = remote.description
    /\ ret.raised = "None"

\* C10: a remote command whose options are None compares like the same
\* remote command with an empty options sequence: equal to a local command
\* without options and with the same name and description, not equal to a
\* local command with at least one option.
C10_NoneAsEmpty ==
    (Called /\ remote.options = NoneVal) =>
        /\ ret = _compare_with([remote EXCEPT !.options = Some(<< >>)])
        /\ (/\ Len(options) = 0
            /\ name = remote.name
            /\ description = remote.description) => ret = Returns(TRUE)
        /\ Len(options) >= 1 => ret = Returns(FALSE)

C10_Witness ==
    /\ Called
    /\ remote.options = NoneVal
    /\ Len(options) = 0
    /\ name = remote.name
    /\ description = remote.description
    /\ ret = Returns(TRUE)

====
